---- MODULE Spec2Model ----
(***************************************************************************)
(* A model of scfg-rs: the Scfg multimap document (src/scfg-rs/src/lib.rs), *)
(* its serializer (Scfg::write) and its block parser                        *)
(* (src/scfg-rs/src/parser.rs).  Text is a sequence of one-character        *)
(* strings; a word, a line and a whole input are such sequences.            *)
(***************************************************************************)
EXTENDS Integers, Sequences, FiniteSets, TLC

VARIABLES
    preserve_order,  \* the cargo feature of lib.rs:55-58, fixed per build
    doc,             \* the Scfg a caller holds (builder / multimap operations)
    last,            \* the operation that produced doc, with its arguments
    input,           \* the lines the BufRead has handed to the parser so far
    ps               \* the parser: lineno, the open read_block frames, outcome

vars == <<preserve_order, doc, last, input, ps>>

(***************************************************************************)
(* Characters.                                                             *)
(***************************************************************************)
SQ == "'"
DQ == "\""
BSL == "\\"
SP == " "
TAB == "\t"
NL == "\n"
LB == "{"
RB == "}"
HASH == "#"

\* The byte value of a character: String's Ord is byte-wise.
Byte(c) ==
    CASE c = TAB -> 9 [] c = NL -> 10 [] c = SP -> 32 [] c = DQ -> 34
      [] c = HASH -> 35 [] c = SQ -> 39 [] c = BSL -> 92 [] c = "a" -> 97
      [] c = "b" -> 98 [] c = "c" -> 99 [] c = LB -> 123 [] c = RB -> 125

\* a < b for Strings (Ord for str: lexicographic on bytes).
StrLess(a, b) ==
    \E k \in 1..(Len(b)) :
        /\ \A j \in 1..(k - 1) : j <= Len(a) /\ a[j] = b[j]
        /\ \/ k = Len(a) + 1
           \/ k <= Len(a) /\ Byte(a[k]) < Byte(b[k])

RECURSIVE Concat(_)
Concat(ss) == IF ss = <<>> THEN <<>> ELSE Head(ss) \o Concat(Tail(ss))

(***************************************************************************)
(* shell_words::split and shell_words::quote, the tokenizer and quoter the  *)
(* parser and the serializer call.                                          *)
(***************************************************************************)
IsBlank(c) == c \in {TAB, SP, NL}

\* What split returns, with the state its machine was in at the end of s.
SplitEnd(ok, words, state) == [ok |-> ok, words |-> words, state |-> state]

\* One character (or the end of the string) of split's state machine.
RECURSIVE SplitFrom(_, _, _, _, _)
SplitFrom(s, i, state, word, words) ==
    IF i > Len(s)
    THEN CASE state \in {"Delimiter", "Comment"} -> SplitEnd(TRUE, words, state)
           [] state \in {"Backslash", "UnquotedBackslash"} ->
                SplitEnd(TRUE, Append(words, Append(word, BSL)), state)
           [] state = "Unquoted" -> SplitEnd(TRUE, Append(words, word), state)
           [] OTHER -> SplitEnd(FALSE, <<>>, state)
    ELSE LET c == s[i]
             go(st, w, ws) == SplitFrom(s, i + 1, st, w, ws)
         IN CASE state = "Delimiter" ->
                   ( CASE c = SQ -> go("SingleQuoted", word, words)
                       [] c = DQ -> go("DoubleQuoted", word, words)
                       [] c = BSL -> go("Backslash", word, words)
                       [] IsBlank(c) -> go("Delimiter", word, words)
                       [] c = HASH -> go("Comment", word, words)
                       [] OTHER -> go("Unquoted", Append(word, c), words) )
              [] state = "Backslash" ->
                   IF c = NL THEN go("Delimiter", word, words)
                   ELSE go("Unquoted", Append(word, c), words)
              [] state = "Unquoted" ->
                   ( CASE c = SQ -> go("SingleQuoted", word, words)
                       [] c = DQ -> go("DoubleQuoted", word, words)
                       [] c = BSL -> go("UnquotedBackslash", word, words)
                       [] IsBlank(c) -> go("Delimiter", <<>>, Append(words, word))
                       [] OTHER -> go("Unquoted", Append(word, c), words) )
              [] state = "UnquotedBackslash" ->
                   IF c = NL THEN go("Unquoted", word, words)
                   ELSE go("Unquoted", Append(word, c), words)
              [] state = "SingleQuoted" ->
                   IF c = SQ THEN go("Unquoted", word, words)
                   ELSE go("SingleQuoted", Append(word, c), words)
              [] state = "DoubleQuoted" ->
                   ( CASE c = DQ -> go("Unquoted", word, words)
                       [] c = BSL -> go("DoubleQuotedBackslash", word, words)
                       [] OTHER -> go("DoubleQuoted", Append(word, c), words) )
              [] state = "DoubleQuotedBackslash" ->
                   ( CASE c = NL -> go("DoubleQuoted", word, words)
                       [] c \in {DQ, BSL} -> go("DoubleQuoted", Append(word, c), words)
                       [] OTHER -> go("DoubleQuoted", Append(Append(word, BSL), c), words) )
              [] state = "Comment" ->
                   IF c = NL THEN go("Delimiter", word, words)
                   ELSE go("Comment", word, words)

Split(s) == SplitFrom(s, 1, "Delimiter", <<>>, <<>>)

\* The characters quote leaves bare are all but these (escape_style).
IsSpecial(c) == c \in {NL, SQ, BSL, DQ, SP, TAB, HASH}

RECURSIVE QuoteChars(_)
QuoteChars(s) ==
    IF s = <<>> THEN <<>>
    ELSE (IF Head(s) = SQ THEN <<SQ, BSL, SQ, SQ>> ELSE <<Head(s)>>)
         \o QuoteChars(Tail(s))

Quote(s) ==
    IF s # <<>> /\ \A i \in 1..Len(s) : ~IsSpecial(s[i])
    THEN s
    ELSE <<SQ>> \o QuoteChars(s) \o <<SQ>>

\* str::trim on a line.
RECURSIVE TrimStart(_)
TrimStart(s) == IF s # <<>> /\ IsBlank(Head(s)) THEN TrimStart(Tail(s)) ELSE s

RECURSIVE TrimEnd(_)
TrimEnd(s) ==
    IF s # <<>> /\ IsBlank(s[Len(s)]) THEN TrimEnd(SubSeq(s, 1, Len(s) - 1)) ELSE s

Trim(s) == TrimEnd(TrimStart(s))

(***************************************************************************)
(* Scfg: Map<String, Vec<Directive>>, kept as the sequence of its entries   *)
(* in iteration order.  An Option is <<>> (None) or <<x>> (Some(x)).        *)
(***************************************************************************)
None == <<>>
Some(x) == <<x>>

EmptyScfg == <<>>

DefaultDirective == [params |-> <<>>, child |-> None]

HasKey(s, name) == \E i \in 1..Len(s) : s[i].key = name

KeyIndex(s, name) == CHOOSE i \in 1..Len(s) : s[i].key = name

\* Map::get(name): Option<&Vec<Directive>>
MapGet(s, name) == IF HasKey(s, name) THEN Some(s[KeyIndex(s, name)].val) ELSE None

Get(s, name) ==
    IF HasKey(s, name) /\ s[KeyIndex(s, name)].val # <<>>
    THEN Some(s[KeyIndex(s, name)].val[1])
    ELSE None

GetAll(s, name) == MapGet(s, name)

Contains(s, name) == HasKey(s, name)

\* The position a new key takes: BTreeMap keeps keys sorted, IndexMap appends.
InsertPos(s, name) ==
    IF preserve_order THEN Len(s) + 1
    ELSE 1 + Cardinality({i \in 1..Len(s) : StrLess(s[i].key, name)})

\* Map::entry(name).or_insert_with(Vec::new)
EntryOrInsert(s, name) ==
    IF HasKey(s, name) THEN s
    ELSE LET p == InsertPos(s, name)
         IN SubSeq(s, 1, p - 1) \o <<[key |-> name, val |-> <<>>]>>
            \o SubSeq(s, p, Len(s))

\* The mutant of PushDirective: the directive is put first in the bucket.
PushDirectiveFront(bucket, d) == <<d>> \o bucket

\* Vec::push on the bucket of an entry.
PushDirective(bucket, d) == Append(bucket, d)

AddDirective(s, name, d) ==
    LET e == EntryOrInsert(s, name)
        i == KeyIndex(e, name)
    IN [e EXCEPT ![i].val = PushDirective(@, d)]

Add(s, name) == AddDirective(s, name, DefaultDirective)

\* The mutant of MapRemove: the Vec is drained and the key is kept.
MapRemoveDrain(s, name) ==
    IF ~HasKey(s, name) THEN s ELSE [s EXCEPT ![KeyIndex(s, name)].val = <<>>]

\* Map::remove: BTreeMap::remove deletes in place; IndexMap::remove is
\* swap_remove, which moves the last entry into the hole.
MapRemove(s, name) ==
    IF ~HasKey(s, name) THEN s
    ELSE LET i == KeyIndex(s, name)
             n == Len(s)
         IN IF preserve_order
            THEN IF i = n THEN SubSeq(s, 1, n - 1)
                 ELSE SubSeq(s, 1, i - 1) \o <<s[n]>> \o SubSeq(s, i + 1, n - 1)
            ELSE SubSeq(s, 1, i - 1) \o SubSeq(s, i + 1, n)

Remove(s, name) == MapRemove(s, name)

RemoveEntry(s, name) == MapRemove(s, name)

RECURSIVE FromIter(_)
FromIter(items) ==
    IF items = <<>> THEN EmptyScfg
    ELSE LET it == items[Len(items)]
             e == EntryOrInsert(FromIter(SubSeq(items, 1, Len(items) - 1)), it[1])
         IN [e EXCEPT ![KeyIndex(e, it[1])].val = PushDirective(@, it[2])]

AppendParam(d, param) == [d EXCEPT !.params = Append(@, param)]

GetOrCreateChild(d) == IF d.child = None THEN [d EXCEPT !.child = Some(EmptyScfg)] ELSE d

\* #[derive(PartialEq)] on Scfg and Directive: maps are equal when they hold
\* equal buckets under the same keys (an IndexMap whatever the order of its
\* keys, a BTreeMap has one order), Vecs and Options member by member.
RECURSIVE ScfgEq(_, _)
ScfgEq(x, y) ==
    /\ Len(x) = Len(y)
    /\ \A i \in 1..Len(x) :
           /\ HasKey(y, x[i].key)
           /\ LET u == x[i].val
                  v == y[KeyIndex(y, x[i].key)].val
              IN /\ Len(u) = Len(v)
                 /\ \A j \in 1..Len(u) :
                        /\ u[j].params = v[j].params
                        /\ (u[j].child = None) <=> (v[j].child = None)
                        /\ u[j].child # None => ScfgEq(u[j].child[1], v[j].child[1])

(***************************************************************************)
(* Scfg::write.                                                            *)
(***************************************************************************)
\* The (name, directive) pairs in the order the two nested for loops meet them.
RECURSIVE Flat(_)
Flat(s) ==
    IF s = <<>> THEN <<>>
    ELSE [i \in 1..Len(s[1].val) |-> <<s[1].key, s[1].val[i]>>] \o Flat(Tail(s))

Tabs(n) == [i \in 1..n |-> TAB]

RECURSIVE QuotedParams(_)
QuotedParams(params) ==
    IF params = <<>> THEN <<>>
    ELSE <<SP>> \o Quote(Head(params)) \o QuotedParams(Tail(params))

RECURSIVE WriteWithIndent(_, _)
RECURSIVE WritePairs(_, _, _)
\* A write that ends every block with its blank line at once, instead of
\* holding it back in prefix until another directive follows.
WritePairsBlankAfter(indent, pairs, prefix) ==
    IF pairs = <<>> THEN <<>>
    ELSE LET name == pairs[1][1]
             d == pairs[1][2]
             head == Tabs(indent) \o Quote(name) \o QuotedParams(d.params)
         IN IF d.child # None
            THEN head \o <<SP, LB, NL>> \o WriteWithIndent(indent + 1, d.child[1])
                 \o Tabs(indent) \o <<RB>> \o <<NL, NL>>
                 \o WritePairs(indent, Tail(pairs), <<>>)
            ELSE head \o <<NL>> \o WritePairs(indent, Tail(pairs), <<>>)

WritePairs(indent, pairs, prefix) ==
    IF pairs = <<>> THEN <<>>
    ELSE LET name == pairs[1][1]
             d == pairs[1][2]
             head == prefix \o Tabs(indent) \o Quote(name) \o QuotedParams(d.params)
         IN IF d.child # None
            THEN head \o <<SP, LB, NL>> \o WriteWithIndent(indent + 1, d.child[1])
                 \o Tabs(indent) \o <<RB>> \o <<NL>>
                 \o WritePairs(indent, Tail(pairs), <<NL>>)
            ELSE head \o <<NL>> \o WritePairs(indent, Tail(pairs), <<>>)

WriteWithIndent(indent, s) == WritePairs(indent, Flat(s), <<>>)

Write(s) == WriteWithIndent(0, s)

(***************************************************************************)
(* The parser: document and read_block.  The recursion of read_block is     *)
(* kept as the sequence of its open frames: blocks[1] is the block of the   *)
(* call made by document, blocks[k + 1] the child that frame k is waiting   *)
(* for, and pending[k] the name and params frame k holds meanwhile.         *)
(***************************************************************************)
ParserStart ==
    [lineno |-> 0, blocks |-> <<EmptyScfg>>, pending |-> <<>>,
     status |-> "run", kind |-> "none", result |-> EmptyScfg, ev |-> "start"]

\* parser.rs:85-86, the test for the end of a block.
IsClosingLine(words, line) == Len(words) = 1 /\ line[Len(line)] = RB

\* parser.rs:91, the test for the start of a child block.
HasChild(words, line) == words[Len(words)] = <<LB>> /\ line[Len(line)] = LB

\* parser.rs:93-98: the words without the brace, and the name among them.
BlockWords(words) == SubSeq(words, 1, Len(words) - 1)

BlockName(words) == IF BlockWords(words) = <<>> THEN <<>> ELSE words[1]

BlockParams(words) == IF BlockWords(words) = <<>> THEN <<>> ELSE Tail(BlockWords(words))

\* *lineno += 1, once per read attempt.
CountLine(lineno) == lineno + 1

\* Error { kind, lineno }
Fail(p, kind, ev) ==
    [p EXCEPT !.status = "Err", !.kind = kind, !.ev = ev,
              !.blocks = <<>>, !.pending = <<>>]

\* The mutant of AtEof: the caller does not look at closing_brace, and the
\* blocks read so far are returned as the document.
AtEofPartial(p) ==
    [p EXCEPT !.status = "Ok", !.result = p.blocks[1], !.ev = "eof", !.blocks = <<>>,
              !.pending = <<>>]

\* read_line returned 0: the innermost read_block returns (block, false).
\* Its caller, if any, fails with UnexpectedEof (parser.rs:100-105) and the
\* error passes through every outer frame; document returns Ok otherwise.
AtEof(p) ==
    IF Len(p.blocks) > 1 THEN Fail(p, "Io(UnexpectedEof)", "eof")
    ELSE [p EXCEPT !.status = "Ok", !.result = p.blocks[1], !.ev = "eof",
                   !.blocks = <<>>]

\* The line was the end of a block: read_block returns (block, true).  The
\* caller attaches the block to the directive it holds and adds it
\* (parser.rs:106-112, 123); document fails (parser.rs:43-48).
AtClosingBrace(p) ==
    LET n == Len(p.blocks)
    IN IF n = 1 THEN Fail(p, "UnexpectedClosingBrace", "close")
       ELSE LET pd == p.pending[n - 1]
                d == [params |-> pd.params, child |-> Some(p.blocks[n])]
            IN [p EXCEPT !.blocks = Append(SubSeq(p.blocks, 1, n - 2),
                                           AddDirective(p.blocks[n - 1], pd.name, d)),
                         !.pending = SubSeq(p.pending, 1, n - 2),
                         !.ev = "close"]

\* parser.rs:92-99: the frame keeps name and params and calls read_block.
OpenChild(p, words) ==
    [p EXCEPT !.blocks = Append(@, EmptyScfg),
              !.pending = Append(@, [name |-> BlockName(words),
                                     params |-> BlockParams(words)]),
              !.ev = "open"]

\* parser.rs:114-123: a directive without a child.
PlainDirective(p, words) ==
    LET n == Len(p.blocks)
        d == [params |-> Tail(words), child |-> None]
    IN [p EXCEPT !.blocks[n] = AddDirective(@, words[1], d), !.ev = "plain"]

\* The mutant of SkipBlank: the counter is advanced only for the lines that
\* hold something.
SkipBlankUncounted(p) == [p EXCEPT !.ev = "blank", !.lineno = @ - 1]

\* parser.rs:80-83: the line is empty or a comment.
SkipBlank(p) == [p EXCEPT !.ev = "blank"]

\* One turn of read_block's loop (parser.rs:63-124) on what read_line gave:
\* rd = None at the end of the input, Some(raw line) otherwise.
Step(p0, rd) ==
    LET p == [p0 EXCEPT !.lineno = CountLine(@)]
    IN IF rd = None THEN AtEof(p)
       ELSE LET line == Trim(rd[1])
                sp == Split(line)
            IN CASE ~sp.ok -> Fail(p, "ShellWords", "tokerr")
                 [] sp.ok /\ sp.words = <<>> -> SkipBlank(p)
                 [] sp.ok /\ sp.words # <<>> /\ IsClosingLine(sp.words, line) ->
                        AtClosingBrace(p)
                 [] sp.ok /\ sp.words # <<>> /\ ~IsClosingLine(sp.words, line)
                          /\ HasChild(sp.words, line) -> OpenChild(p, sp.words)
                 [] OTHER -> PlainDirective(p, sp.words)

\* BufRead::read_line over a whole text: the raw lines, each with its "\n".
RECURSIVE LinesOf(_, _)
LinesOf(text, cur) ==
    IF text = <<>> THEN (IF cur = <<>> THEN <<>> ELSE <<cur>>)
    ELSE IF Head(text) = NL THEN <<Append(cur, NL)>> \o LinesOf(Tail(text), <<>>)
    ELSE LinesOf(Tail(text), Append(cur, Head(text)))

RECURSIVE Run(_, _)
Run(p, lines) ==
    IF p.status # "run" THEN p
    ELSE IF lines = <<>> THEN Step(p, None)
    ELSE Run(Step(p, Some(Head(lines))), Tail(lines))

\* parser::document on a whole text (impl FromStr for Scfg).
Document(text) == Run(ParserStart, LinesOf(text, <<>>))

ParseOk(s) == [ok |-> TRUE, doc |-> s]

\* What a caller of str::parse::<Scfg> sees.
FromStr(text) ==
    LET r == Document(text)
    IN IF r.status = "Ok" THEN ParseOk(r.result)
       ELSE [ok |-> FALSE, kind |-> r.kind, lineno |-> r.lineno]

(***************************************************************************)
(* Parsing a stream: the BufRead hands the parser one line per read_line,  *)
(* and the parser never looks ahead, so the input is chosen line by line.   *)
(***************************************************************************)
MaxLines == 3

\* The lines of the inputs, without their "\n".
LineSet ==
    { <<>>,                                   \* a blank line
      <<HASH, "a">>,                          \* a comment
      <<"a">>,
      <<"b", SP, "a">>,
      <<"a", SP, LB>>,                        \* a block
      <<LB>>,                                 \* a block without a name
      <<"b", SP, DQ, "a", SP, "b", DQ, SP, LB>>,
      <<RB>>,
      <<TAB, RB, SP>>,                        \* an indented closing brace
      <<"a", RB>>,
      <<"a", LB>>,
      <<"a", SP, SQ, LB, SQ>>,                \* a quoted brace
      <<"a", SP, BSL, LB>>,                   \* an escaped brace
      <<SQ, "a">> }                           \* a quote left open

NoOp == [op |-> "new", name |-> <<>>, arg |-> <<>>]

Init ==
    /\ preserve_order \in BOOLEAN
    /\ doc = EmptyScfg
    /\ last = NoOp
    /\ input = <<>>
    /\ ps = ParserStart

\* The last line read had no "\n": the input ends there.
InputEnded == input # <<>> /\ input[Len(input)][Len(input[Len(input)])] # NL

\* read_line returns a line, and read_block takes one turn of its loop on it.
ReadLine ==
    \E l \in LineSet, nl \in BOOLEAN :
        /\ ps.status = "run"
        /\ ~InputEnded
        /\ Len(input) < MaxLines
        /\ nl \/ l # <<>>
        /\ LET raw == IF nl THEN Append(l, NL) ELSE l
           IN /\ input' = Append(input, raw)
              /\ ps' = Step(ps, Some(raw))
        /\ UNCHANGED <<preserve_order, doc, last>>

\* read_line returns 0.
ReadEof ==
    /\ ps.status = "run"
    /\ ps' = Step(ps, None)
    /\ UNCHANGED <<preserve_order, doc, last, input>>

Next == ReadLine \/ ReadEof

Spec == Init /\ [][Next]_vars

(***************************************************************************)
(* The multimap operations on a document a caller holds.                    *)
(***************************************************************************)
MaxDirs == 3

MaxParams == 1

DocNames == {<<"b">>, <<"a">>, <<"c">>}

ParamWords == {<<"a">>}

\* The directives an iterator hands to collect.
IterDirectives == {[params |-> ps0, child |-> None] : ps0 \in {<<>>, <<<<"a">>>>}}

RECURSIVE SeqsUpTo(_, _)
SeqsUpTo(S, n) ==
    IF n = 0 THEN {<<>>}
    ELSE LET shorter == SeqsUpTo(S, n - 1)
         IN shorter \cup {Append(q, x) : q \in shorter, x \in S}

\* The lines of the texts a caller parses into a document.
FlatLines == {<<"a">>, <<"b", SP, "a">>, <<"a", SP, "b">>, <<"c">>, <<HASH, "a">>}

RECURSIVE CountDirs(_)
CountDirs(s) == IF s = <<>> THEN 0 ELSE Len(s[1].val) + CountDirs(Tail(s))

Did(op, name, arg) == [op |-> op, name |-> name, arg |-> arg]

\* scfg.add(name)
DoAdd ==
    \E name \in DocNames :
        /\ CountDirs(doc) < MaxDirs
        /\ doc' = Add(doc, name)
        /\ last' = Did("add", name, <<>>)
        /\ UNCHANGED <<preserve_order, input, ps>>

\* scfg.remove(name)
DoRemove ==
    \E name \in DocNames :
        /\ doc' = Remove(doc, name)
        /\ last' = Did("remove", name, <<>>)
        /\ UNCHANGED <<preserve_order, input, ps>>

\* scfg.remove_entry(name)
DoRemoveEntry ==
    \E name \in DocNames :
        /\ doc' = RemoveEntry(doc, name)
        /\ last' = Did("remove_entry", name, <<>>)
        /\ UNCHANGED <<preserve_order, input, ps>>

\* The caller has made no document yet.
Fresh == doc = EmptyScfg /\ last.op = "new"

\* items.into_iter().collect::<Scfg>(): the document the caller starts from.
DoCollect ==
    \E items \in SeqsUpTo(DocNames \X IterDirectives, MaxDirs) :
        /\ Fresh
        /\ doc' = FromIter(items)
        /\ last' = Did("collect", <<>>, items)
        /\ UNCHANGED <<preserve_order, input, ps>>

\* text.parse::<Scfg>(): the document the caller starts from.
DoParse ==
    \E lines \in SeqsUpTo(FlatLines, MaxDirs) :
        LET text == Concat([i \in 1..Len(lines) |-> Append(lines[i], NL)])
        IN /\ Fresh
           /\ FromStr(text).ok
           /\ doc' = FromStr(text).doc
           /\ last' = Did("parse", <<>>, lines)
           /\ UNCHANGED <<preserve_order, input, ps>>

\* scfg.get_all_mut(name): Some(&mut Vec<Directive>) when the name is a key.
\* The caller then does with the Vec what a Vec allows.
DoGetAllMutPush ==
    \E name \in DocNames, d \in IterDirectives :
        /\ Contains(doc, name)
        /\ CountDirs(doc) < MaxDirs
        /\ doc' = [doc EXCEPT ![KeyIndex(doc, name)].val = Append(@, d)]
        /\ last' = Did("get_all_mut.push", name, d)
        /\ UNCHANGED <<preserve_order, input, ps>>

DoGetAllMutPop ==
    \E name \in DocNames :
        /\ Contains(doc, name)
        /\ doc' = [doc EXCEPT ![KeyIndex(doc, name)].val = SubSeq(@, 1, Len(@) - 1)]
        /\ last' = Did("get_all_mut.pop", name, <<>>)
        /\ UNCHANGED <<preserve_order, input, ps>>

DoGetAllMutClear ==
    \E name \in DocNames :
        /\ Contains(doc, name)
        /\ doc' = [doc EXCEPT ![KeyIndex(doc, name)].val = <<>>]
        /\ last' = Did("get_all_mut.clear", name, <<>>)
        /\ UNCHANGED <<preserve_order, input, ps>>

\* scfg.get_all_mut(name)[i].append_param(param)
DoAppendParam ==
    \E name \in DocNames, param \in ParamWords :
        /\ Contains(doc, name)
        /\ \E i \in 1..Len(MapGet(doc, name)[1]) :
               /\ Len(MapGet(doc, name)[1][i].params) < MaxParams
               /\ doc' = [doc EXCEPT ![KeyIndex(doc, name)].val[i] = AppendParam(@, param)]
               /\ last' = Did("append_param", name, <<i, param>>)
        /\ UNCHANGED <<preserve_order, input, ps>>

NextDoc ==
    \/ DoAdd \/ DoRemove \/ DoRemoveEntry \/ DoCollect \/ DoParse
    \/ DoGetAllMutPush \/ DoGetAllMutPop \/ DoGetAllMutClear \/ DoAppendParam

SpecDoc == Init /\ [][NextDoc]_vars

(***************************************************************************)
(* The builder: add, append_param and get_or_create_child, on the document  *)
(* and on the children it reaches.  A directive is addressed by the path of *)
(* <<entry, place in the bucket>> pairs that leads to it.                   *)
(***************************************************************************)
MaxBuildDirs == 2

BuildWords ==
    {<<>>, <<"a">>, <<LB>>, <<RB>>, <<HASH>>, <<"a", RB>>, <<"a", SP, SQ>>, <<DQ, "b">>}

Places(s) == UNION {{<<i, j>> : j \in 1..Len(s[i].val)} : i \in 1..Len(s)}

RECURSIVE DirPaths(_)
DirPaths(s) ==
    UNION {{<<pl>>} \cup
           (IF s[pl[1]].val[pl[2]].child = None THEN {}
            ELSE {<<pl>> \o q : q \in DirPaths(s[pl[1]].val[pl[2]].child[1])})
           : pl \in Places(s)}

RECURSIVE DirAt(_, _)
DirAt(s, path) ==
    LET d == s[path[1][1]].val[path[1][2]]
    IN IF Len(path) = 1 THEN d ELSE DirAt(d.child[1], Tail(path))

RECURSIVE ReplaceDir(_, _, _)
ReplaceDir(s, path, nd) ==
    LET i == path[1][1]
        j == path[1][2]
    IN IF Len(path) = 1 THEN [s EXCEPT ![i].val[j] = nd]
       ELSE [s EXCEPT ![i].val[j].child =
                 Some(ReplaceDir(s[i].val[j].child[1], Tail(path), nd))]

RECURSIVE CountAll(_)
CountAll(s) ==
    IF s = <<>> THEN 0
    ELSE LET ds == s[1].val
             RECURSIVE inBucket(_)
             inBucket(k) ==
                 IF k = 0 THEN 0
                 ELSE 1 + (IF ds[k].child = None THEN 0 ELSE CountAll(ds[k].child[1]))
                      + inBucket(k - 1)
         IN inBucket(Len(ds)) + CountAll(Tail(s))

\* scfg.add(name), or child.add(name) on the child of the directive at path.
BuildAdd ==
    \E name \in BuildWords :
        /\ CountAll(doc) < MaxBuildDirs
        /\ \/ /\ doc' = Add(doc, name)
              /\ last' = Did("add", name, <<>>)
           \/ \E path \in DirPaths(doc) :
                  LET d == DirAt(doc, path)
                  IN /\ d.child # None
                     /\ doc' = ReplaceDir(doc, path,
                                          [d EXCEPT !.child = Some(Add(d.child[1], name))])
                     /\ last' = Did("add", name, path)
        /\ UNCHANGED <<preserve_order, input, ps>>

\* directive.append_param(param)
BuildAppendParam ==
    \E param \in BuildWords, path \in DirPaths(doc) :
        /\ Len(DirAt(doc, path).params) < MaxParams
        /\ doc' = ReplaceDir(doc, path, AppendParam(DirAt(doc, path), param))
        /\ last' = Did("append_param", param, path)
        /\ UNCHANGED <<preserve_order, input, ps>>

\* directive.get_or_create_child()
BuildGetOrCreateChild ==
    \E path \in DirPaths(doc) :
        /\ doc' = ReplaceDir(doc, path, GetOrCreateChild(DirAt(doc, path)))
        /\ last' = Did("get_or_create_child", <<>>, path)
        /\ UNCHANGED <<preserve_order, input, ps>>

NextBuild == BuildAdd \/ BuildAppendParam \/ BuildGetOrCreateChild

SpecBuild == Init /\ [][NextBuild]_vars

(***************************************************************************)
(* Statements about the document.                                          *)
(***************************************************************************)
\* C1: a document built with add, append_param and get_or_create_child, at
\* any depth, is written to a text that parses to a document equal to it.
C1_RoundTrip ==
    LET r == FromStr(Write(doc))
    IN r.ok /\ ScfgEq(r.doc, doc)

BucketOf(s, name) == IF HasKey(s, name) THEN s[KeyIndex(s, name)].val ELSE <<>>

NonEmptyBuckets(s) ==
    \A name \in DocNames :
        /\ Contains(s, name) <=> Get(s, name) # None
        /\ GetAll(s, name) # Some(<<>>)

\* C3 as stated: after any sequence of the public operations, the mutations
\* made through get_all_mut included, every key has a non-empty bucket:
\* contains(name) exactly when get(name) is Some, and get_all(name) is never
\* Some of an empty sequence.
C3_NonEmptyBuckets == NonEmptyBuckets(doc)

TakesOut(op) == op \in {"get_all_mut.pop", "get_all_mut.clear"}

\* C3 as amended: a new document has no empty bucket, and no operation makes
\* one but a mutation through get_all_mut that takes directives out of the
\* Vec.
C3_NonEmptyUnlessTakenOut ==
    /\ [](last.op = "new" => NonEmptyBuckets(doc))
    /\ [][(NonEmptyBuckets(doc) /\ ~TakesOut(last'.op)) => NonEmptyBuckets(doc')]_vars

\* A caller has pushed a directive onto the Vec get_all_mut gave it, beside
\* another name.
C3_Witness ==
    /\ last.op = "get_all_mut.push"
    /\ Len(BucketOf(doc, last.name)) >= 2
    /\ Len(doc) = 2 /\ NonEmptyBuckets(doc)

\* The directives that the pairs of an iterator give to one name, in order.
NamedIn(items, name) ==
    LET hit(it) == it[1] = name
        sel == SelectSeq(items, hit)
    IN [i \in 1..Len(sel) |-> sel[i][2]]

\* The (name, directive) pairs of the lines of a text without blocks.
LinePairs(lines) ==
    LET full(l) == Split(l).words # <<>>
        sel == SelectSeq(lines, full)
    IN [i \in 1..Len(sel) |->
            <<Split(sel[i]).words[1],
              [params |-> Tail(Split(sel[i]).words), child |-> None]>>]

\* C6: in both modes a bucket holds its directives in the order they were
\* inserted, by collect, by the parser or by add, whatever was inserted under
\* other names in between; add(name) puts a new empty directive last in the
\* bucket of name and changes no other directive of any bucket.
C6_PerNameOrder ==
    /\ [](last.op = "collect" =>
              \A name \in DocNames : BucketOf(doc, name) = NamedIn(last.arg, name))
    /\ [](last.op = "parse" =>
              \A name \in DocNames :
                  BucketOf(doc, name) = NamedIn(LinePairs(last.arg), name))
    /\ [][last'.op = "add" =>
              /\ BucketOf(doc', last'.name) =
                     Append(BucketOf(doc, last'.name), DefaultDirective)
              /\ \A other \in DocNames \ {last'.name} :
                     MapGet(doc', other) = MapGet(doc, other)]_vars

\* add has put a directive behind one that holds a param, beside another name.
C6_Witness ==
    /\ last.op = "add"
    /\ Len(doc) >= 2
    /\ Len(BucketOf(doc, last.name)) >= 2
    /\ BucketOf(doc, last.name)[1] # DefaultDirective

KeysOf(s) == [i \in 1..Len(s) |-> s[i].key]

KeysWithout(s, name) ==
    LET other(k) == k # name
    IN SelectSeq(KeysOf(s), other)

\* C7: without preserve_order the names are iterated in ascending order; with
\* it, in the order of their first insertion: add puts a new name last and
\* leaves the others where they are; in both modes remove and remove_entry
\* leave the other names in the order they had.
C7_KeyOrder ==
    /\ [](~preserve_order =>
              \A i, j \in 1..Len(doc) : i < j => StrLess(doc[i].key, doc[j].key))
    /\ [][/\ (preserve_order /\ last'.op = "add") =>
                 KeysOf(doc') = IF Contains(doc, last'.name) THEN KeysOf(doc)
                                ELSE Append(KeysOf(doc), last'.name)
          /\ last'.op \in {"remove", "remove_entry"} =>
                 KeysOf(doc') = KeysWithout(doc, last'.name)]_vars

(***************************************************************************)
(* Reading the input by itself, line by line, for the statements below.     *)
(***************************************************************************)
WordsOf(raw) == Split(Trim(raw))

\* What the parser takes a line for, by the tests of read_block.
LineClass(raw) ==
    LET line == Trim(raw)
        sp == Split(line)
    IN CASE ~sp.ok -> "bad"
         [] sp.ok /\ sp.words = <<>> -> "blank"
         [] sp.ok /\ sp.words # <<>> /\ IsClosingLine(sp.words, line) -> "close"
         [] sp.ok /\ sp.words # <<>> /\ ~IsClosingLine(sp.words, line)
                  /\ HasChild(sp.words, line) -> "open"
         [] OTHER -> "plain"

Classes(lines) == [i \in 1..Len(lines) |-> LineClass(lines[i])]

\* The number of blocks open when line i is read, cs the classes of the lines.
OpenBefore(cs, i) ==
    Cardinality({j \in 1..(i - 1) : cs[j] = "open"})
    - Cardinality({j \in 1..(i - 1) : cs[j] = "close"})

StrayBrace(cs, i) == cs[i] = "close" /\ OpenBefore(cs, i) = 0

Faulty(cs, i) == cs[i] = "bad" \/ StrayBrace(cs, i)

\* The first line that cannot be tokenized or closes a block that is not
\* open; 0 when there is none.
FirstFault(cs) ==
    IF \E i \in 1..Len(cs) : Faulty(cs, i)
    THEN CHOOSE i \in 1..Len(cs) : Faulty(cs, i) /\ \A j \in 1..(i - 1) : ~Faulty(cs, j)
    ELSE 0

\* The text read so far, its last line ended.
TextRead == Concat(input) \o (IF InputEnded THEN <<NL>> ELSE <<>>)

ParseError == [ok |-> FALSE, kind |-> ps.kind, lineno |-> ps.lineno]

\* C4: the line counter counts every read attempt, blank lines, comments and
\* the lines of nested blocks included; a parse that fails with
\* UnexpectedClosingBrace reports the line number of the first closing line
\* met while no block is open, a parse that fails in the tokenizer reports the
\* line number of the first line that does not tokenize; parsing stops at the
\* first such line, and no line after it changes the error.
C4_ErrorLine ==
    LET cs == Classes(input)
        ff == FirstFault(cs)
    IN /\ ps.lineno = Len(input) + (IF ps.ev = "eof" THEN 1 ELSE 0)
       /\ ff # 0 => ps.status = "Err" /\ ps.lineno = ff
       /\ (ps.status = "Err" /\ ps.kind = "UnexpectedClosingBrace") =>
              ps.lineno = ff /\ StrayBrace(cs, ff)
       /\ (ps.status = "Err" /\ ps.kind = "ShellWords") =>
              ps.lineno = ff /\ cs[ff] = "bad"
       /\ (ps.status = "Err" /\ ps.kind # "Io(UnexpectedEof)") =>
              /\ FromStr(Concat(input)) = ParseError
              /\ \A l \in LineSet : FromStr(TextRead \o l \o <<NL>>) = ParseError

\* A line of an open block fails to tokenize, after a blank line or a comment.
C4_Witness ==
    /\ ps.status = "Err" /\ ps.kind = "ShellWords" /\ ps.lineno = 3
    /\ \E j \in 1..Len(input) : LineClass(input[j]) = "blank"
    /\ \E j \in 1..Len(input) : LineClass(input[j]) = "open"

\* C5: when the input ends with blocks still open and no line before was at
\* fault, the parse fails with Io(UnexpectedEof), returns no document, and
\* reports the number of lines of the input plus one, however many blocks
\* are open.
C5_UnclosedBlock ==
    (ps.ev = "eof" /\ OpenBefore(Classes(input), Len(input) + 1) > 0) =>
        /\ ps.status = "Err"
        /\ ps.kind = "Io(UnexpectedEof)"
        /\ ps.lineno = Len(input) + 1
        /\ FromStr(Concat(input)) =
               [ok |-> FALSE, kind |-> "Io(UnexpectedEof)", lineno |-> Len(input) + 1]

\* The input ends after three lines with two blocks open.
C5_Witness ==
    /\ ps.ev = "eof" /\ ps.status = "Err" /\ ps.lineno = 4
    /\ OpenBefore(Classes(input), 4) = 2

\* The line, trimmed, is the one character '}'.
IsLiteralBrace(raw) == Trim(raw) = <<RB>>

\* The last token of the trimmed line is a '{' that stands in the text
\* unquoted and unescaped: the tokenizer is between words when it meets it.
EndsInBareBrace(raw) ==
    LET line == Trim(raw)
    IN /\ line # <<>>
       /\ line[Len(line)] = LB
       /\ Split(SubSeq(line, 1, Len(line) - 1)).state = "Delimiter"

LastRead == input[Len(input)]

\* C9: read_block stops with closing_brace = true exactly when the line it
\* just read is, once trimmed, the literal '}'.
C9_BlockEnd ==
    ps.ev \notin {"start", "eof"} => ((ps.ev = "close") <=> IsLiteralBrace(LastRead))

\* The directive the parser has just added to the innermost open block.
AddedLast(name) ==
    LET b == ps.blocks[Len(ps.blocks)]
        ds == MapGet(b, name)
    IN IF ds = None THEN None ELSE Some(ds[1][Len(ds[1])])

\* C10: a directive line starts a child block exactly when its last token is
\* the unquoted literal '{'; then the brace is dropped, the name is the first
\* token left (the empty string when none is) and the rest are the params;
\* otherwise the name is the first token and the rest are the params.
C10_BlockStart ==
    ps.ev \in {"open", "plain"} =>
        LET w == WordsOf(LastRead).words
        IN /\ (ps.ev = "open") <=> EndsInBareBrace(LastRead)
           /\ ps.ev = "open" =>
                  ps.pending[Len(ps.pending)] =
                      [name |-> IF Len(w) = 1 THEN <<>> ELSE w[1],
                       params |-> SubSeq(w, 2, Len(w) - 1)]
           /\ ps.ev = "plain" =>
                  AddedLast(w[1]) = Some([params |-> Tail(w), child |-> None])

\* The nesting of C2, with the lines taken as C9 and C10 take them: a '}' line
\* is the literal '}', a '{' line ends in the bare '{'.  blocks are the open
\* documents, innermost last, heads the directives that opened them.
RECURSIVE Nest(_, _, _)
Nest(lines, blocks, heads) ==
    IF lines = <<>> THEN blocks
    ELSE LET raw == Head(lines)
             w == WordsOf(raw).words
             n == Len(blocks)
         IN IF w = <<>> THEN Nest(Tail(lines), blocks, heads)
            ELSE IF IsLiteralBrace(raw)
            THEN IF n = 1 THEN blocks
                 ELSE Nest(Tail(lines),
                           Append(SubSeq(blocks, 1, n - 2),
                                  AddDirective(blocks[n - 1], heads[n - 1].name,
                                               [params |-> heads[n - 1].params,
                                                child |-> Some(blocks[n])])),
                           SubSeq(heads, 1, n - 2))
            ELSE IF EndsInBareBrace(raw)
            THEN Nest(Tail(lines), Append(blocks, EmptyScfg),
                      Append(heads, [name |-> BlockName(w), params |-> BlockParams(w)]))
            ELSE Nest(Tail(lines),
                      [blocks EXCEPT ![n] =
                           AddDirective(@, w[1], [params |-> Tail(w), child |-> None])],
                      heads)

\* C2: in a text that parses, every directive line is added to the child of
\* the directive whose '{' line is the last one not yet closed by a '}' line
\* (to the top-level document when none is open); a directive whose line
\* ends in '{' gets Some(child), every other directive gets None.
C2_Nesting ==
    ps.status = "Ok" => Nest(input, <<EmptyScfg>>, <<>>) = <<ps.result>>

\* The same nesting with every line taken as read_block takes it (LineClass).
RECURSIVE NestAsRead(_, _, _)
NestAsRead(lines, blocks, heads) ==
    IF lines = <<>> THEN blocks
    ELSE LET raw == Head(lines)
             w == WordsOf(raw).words
             n == Len(blocks)
             c == LineClass(raw)
         IN CASE c = "blank" -> NestAsRead(Tail(lines), blocks, heads)
              [] c = "close" ->
                   IF n = 1 THEN blocks
                   ELSE NestAsRead(Tail(lines),
                                   Append(SubSeq(blocks, 1, n - 2),
                                          AddDirective(blocks[n - 1], heads[n - 1].name,
                                                       [params |-> heads[n - 1].params,
                                                        child |-> Some(blocks[n])])),
                                   SubSeq(heads, 1, n - 2))
              [] c = "open" ->
                   NestAsRead(Tail(lines), Append(blocks, EmptyScfg),
                              Append(heads, [name |-> BlockName(w),
                                             params |-> BlockParams(w)]))
              [] OTHER ->
                   NestAsRead(Tail(lines),
                              [blocks EXCEPT ![n] =
                                   AddDirective(@, w[1],
                                                [params |-> Tail(w), child |-> None])],
                              heads)

\* What is left of C2 when the lines are taken as read_block takes them: the
\* directives of a text that parses are nested as its braces are.
NestingAsRead ==
    ps.status = "Ok" => NestAsRead(input, <<EmptyScfg>>, <<>>) = <<ps.result>>

\* C8: for a text t that parses, s = write(parse(t)) parses too, and
\* write(parse(s)) = s.
C8_NormalizationIdempotent ==
    ps.status = "Ok" =>
        LET s == Write(ps.result)
            r == FromStr(s)
        IN r.ok /\ Write(r.doc) = s

(***************************************************************************)
(* Documents to write: built as by the builder, with names that are a bare  *)
(* word or a word that write has to quote, and parameters to quote.         *)
(***************************************************************************)
MaxLayoutDirs == 3

MaxLayoutParams == 1

LayoutWords == {<<"a">>, <<"a", SP, "b">>}

LayoutParams == {<<"a", SP, "b">>}

\* scfg.add(name), or child.add(name) on the child of the directive at path.
LayoutAdd ==
    \E name \in LayoutWords :
        /\ CountAll(doc) < MaxLayoutDirs
        /\ \/ /\ doc' = Add(doc, name)
              /\ last' = Did("add", name, <<>>)
           \/ \E path \in DirPaths(doc) :
                  LET d == DirAt(doc, path)
                  IN /\ d.child # None
                     /\ doc' = ReplaceDir(doc, path,
                                          [d EXCEPT !.child = Some(Add(d.child[1], name))])
                     /\ last' = Did("add", name, path)
        /\ UNCHANGED <<preserve_order, input, ps>>

\* directive.append_param(param)
LayoutAppendParam ==
    \E param \in LayoutParams, path \in DirPaths(doc) :
        /\ Len(DirAt(doc, path).params) < MaxLayoutParams
        /\ doc' = ReplaceDir(doc, path, AppendParam(DirAt(doc, path), param))
        /\ last' = Did("append_param", param, path)
        /\ UNCHANGED <<preserve_order, input, ps>>

\* directive.get_or_create_child()
LayoutGetOrCreateChild ==
    \E path \in DirPaths(doc) :
        /\ doc' = ReplaceDir(doc, path, GetOrCreateChild(DirAt(doc, path)))
        /\ last' = Did("get_or_create_child", <<>>, path)
        /\ UNCHANGED <<preserve_order, input, ps>>

NextLayout == LayoutAdd \/ LayoutAppendParam \/ LayoutGetOrCreateChild

SpecLayout == Init /\ [][NextLayout]_vars

(***************************************************************************)
(* The serialized layout, line by line.                                    *)
(***************************************************************************)
\* The line of a directive up to its end or its opening brace: one tab per
\* depth, the quoted name, each quoted parameter after one space.
HeadLine(depth, name, d) ==
    [i \in 1..depth |-> TAB] \o Quote(name)
        \o Concat([i \in 1..Len(d.params) |-> <<SP>> \o Quote(d.params[i])])

\* The lines of a document at a depth.  A directive without a child is one
\* line; one with a child is its head with " {", the lines of the child one
\* level deeper, and the line of the closing brace.  A blank line follows the
\* closing brace when another directive of the same document follows; when
\* everyBrace is set, also when the enclosing block's closing brace follows.
RECURSIVE LayoutLines(_, _, _)
LayoutLines(depth, s, everyBrace) ==
    LET pairs == Flat(s)
        n == Len(pairs)
        DirLines(k) ==
            LET name == pairs[k][1]
                d == pairs[k][2]
            IN IF d.child = None THEN <<HeadLine(depth, name, d)>>
               ELSE <<HeadLine(depth, name, d) \o <<SP, LB>>>>
                    \o LayoutLines(depth + 1, d.child[1], everyBrace)
                    \o <<[i \in 1..depth |-> TAB] \o <<RB>>>>
                    \o (IF k < n \/ (everyBrace /\ depth > 0) THEN <<<<>>>> ELSE <<>>)
        RECURSIVE UpTo(_)
        UpTo(k) == IF k = 0 THEN <<>> ELSE UpTo(k - 1) \o DirLines(k)
    IN UpTo(n)

\* The text of a sequence of lines, each ended by a newline.
TextOf(lines) == Concat([i \in 1..Len(lines) |-> lines[i] \o <<NL>>])

\* Some directive with a child is the last one of a child document.
RECURSIVE HasInnerLastBlock(_, _)
HasInnerLastBlock(depth, s) ==
    LET pairs == Flat(s)
        n == Len(pairs)
    IN \E k \in 1..n :
           /\ pairs[k][2].child # None
           /\ \/ (k = n /\ depth > 0)
              \/ HasInnerLastBlock(depth + 1, pairs[k][2].child[1])

\* Some directive with a child is followed by another directive of its document.
RECURSIVE HasBlockBeforeSibling(_)
HasBlockBeforeSibling(s) ==
    LET pairs == Flat(s)
        n == Len(pairs)
    IN \E k \in 1..n :
           /\ pairs[k][2].child # None
           /\ \/ k < n
              \/ HasBlockBeforeSibling(pairs[k][2].child[1])

\* C11, as stated: write emits each directive as tabs, quoted name and quoted
\* parameters, a block as " {", the child one level deeper and the closing
\* brace, and every closing brace line is followed by a blank line before the
\* output continues, at every depth.
C11_BlankAfterEveryBrace == Write(doc) = TextOf(LayoutLines(0, doc, TRUE))

\* C11, amended: the same layout, but the blank line follows a closing brace
\* line only when another directive of the same document follows it; after the
\* last directive of a document the output goes on with the enclosing block's
\* closing brace, or ends.
C11_Layout == Write(doc) = TextOf(LayoutLines(0, doc, FALSE))

\* C11's case: a directive with parameters and a child is followed by another
\* directive, and the written text holds the blank line between them.
C11_Witness ==
    /\ HasBlockBeforeSibling(doc)
    /\ \E i \in 1..Len(doc) : \E j \in 1..Len(doc[i].val) :
           doc[i].val[j].child # None /\ doc[i].val[j].params # <<>>
    /\ \E i \in 1..(Len(Write(doc)) - 2) :
           SubSeq(Write(doc), i, i + 2) = <<RB, NL, NL>>

====
